---------------------------- MODULE Spec2Model ----------------------------
(***************************************************************************)
(* A model of app.py: the finished-books read path of a small Flask API.   *)
(*                                                                         *)
(*   - text helpers: Python's str.strip, str.split, "in", and the regular  *)
(*     expressions the program searches entry text with, computed on       *)
(*     strings character by character;                                     *)
(*   - _to_dt / _pick_finished_date / _grab_user_rating / _extract_review  *)
(*     and the per-entry body of _parse_finished;                          *)
(*   - the module-level _CACHE and the request handler finished(), one     *)
(*     action per shared-memory access, run by several request threads.    *)
(*                                                                         *)
(* The case-insensitive searches fold case with Lower; dates are the        *)
(* numeric YYYY-MM-DD / YYYY/MM/DD forms, every other string being one the *)
(* date parser rejects; the process's time zone is UTC.                    *)
(***************************************************************************)
EXTENDS Integers, Sequences, FiniteSets, TLC

VARIABLES
    configured,   \* GOODREADS_READ_RSS is set (app.py:12)
    cache_items,  \* _CACHE["items"]: None or the stored record list
    cache_ts,     \* _CACHE["ts"]
    clock,        \* what time.time() returns
    pc,           \* per request thread: its place in finished()
    nocache,      \* per thread: request.args.get("nocache")
    now,          \* per thread: the local `now`
    items,        \* per thread: the local `items` of a refresh, until it returns
    resp,         \* per thread: the response of its last request
    reqno,        \* per thread: the number of its request (0: none yet)
    fetched,      \* per thread: its request went upstream
    snap,         \* per thread: _CACHE as it was when the request arrived
    seen,         \* per thread: who wrote the items / the ts it read at line 158
    wrote,        \* who wrote _CACHE["items"] / _CACHE["ts"] last (request numbers)
    nreq,         \* requests started so far
    nfetch,       \* upstream fetches started so far
    entry,        \* parsing specification: the feed entry under test
    rec           \* parsing specification: the record built from it

vars == <<configured, cache_items, cache_ts, clock, pc, nocache, now, items,
          resp, reqno, fetched, snap, seen, wrote, nreq, nfetch, entry, rec>>

-----------------------------------------------------------------------------
(* Characters and strings                                                  *)

\* The character at position i of s, "" outside the string.
Char(s, i) == IF i >= 1 /\ i <= Len(s) THEN SubSeq(s, i, i) ELSE ""

Min(a, b) == IF a <= b THEN a ELSE b

\* \s of the re module, over the characters the model's texts use.
IsSpace(c) == c \in {" ", "\n", "\t"}

Digits == "0123456789"
LowerLetters == "abcdefghijklmnopqrstuvwxyz"
UpperLetters == "ABCDEFGHIJKLMNOPQRSTUVWXYZ"

\* The characters of a string, as a set.
CharsOf(s) == {SubSeq(s, i, i) : i \in 1..Len(s)}

DigitChars == CharsOf(Digits)
UpperChars == CharsOf(UpperLetters)

\* \w of the re module: letters, digits and the underscore.
WordChars == DigitChars \cup CharsOf(LowerLetters) \cup UpperChars \cup {"_"}

\* int(c) of a digit, and c.lower() of a capital.
DigitValueOf == [c \in DigitChars |-> CHOOSE i \in 0..9 : SubSeq(Digits, i + 1, i + 1) = c]
LowerOf ==
    [c \in UpperChars |->
        LET k == CHOOSE i \in 1..26 : SubSeq(UpperLetters, i, i) = c
        IN  SubSeq(LowerLetters, k, k)]

IsDigit(c) == c \in DigitChars

IsWordChar(c) == c \in WordChars

LowerChar(c) == IF c \in UpperChars THEN LowerOf[c] ELSE c

\* str.lower(), and what re.IGNORECASE compares.
RECURSIVE Lower(_)
Lower(s) == IF s = "" THEN "" ELSE LowerChar(SubSeq(s, 1, 1)) \o Lower(Tail(s))

\* s has p at position i.
StartsAt(s, i, p) ==
    /\ i >= 1
    /\ i + Len(p) - 1 <= Len(s)
    /\ SubSeq(s, i, i + Len(p) - 1) = p

\* str.find(p) from position i, 1-based; 0 when p is not in s.
RECURSIVE Find(_, _, _)
Find(s, p, i) ==
    IF i + Len(p) - 1 > Len(s) THEN 0
    ELSE IF StartsAt(s, i, p) THEN i
    ELSE Find(s, p, i + 1)

\* Python's `p in s`.
Contains(s, p) == Find(s, p, 1) > 0

\* The first position >= i of s that holds no white space (Len(s)+1: none).
RECURSIVE SkipSpace(_, _)
SkipSpace(s, i) ==
    IF i <= Len(s) /\ IsSpace(Char(s, i)) THEN SkipSpace(s, i + 1) ELSE i

\* The last position <= i of s that holds no white space (0: none).
RECURSIVE SkipSpaceBack(_, _)
SkipSpaceBack(s, i) ==
    IF i >= 1 /\ IsSpace(Char(s, i)) THEN SkipSpaceBack(s, i - 1) ELSE i

\* str.strip()
Strip(s) ==
    LET a == SkipSpace(s, 1)
        b == SkipSpaceBack(s, Len(s))
    IN  IF a > b THEN "" ELSE SubSeq(s, a, b)

\* The end of the line position i is on: the last position before the next
\* "\n" (the regular expressions' "." does not match a line break).
RECURSIVE LineEnd(_, _)
LineEnd(s, i) ==
    IF i > Len(s) \/ Char(s, i) = "\n" THEN i - 1 ELSE LineEnd(s, i + 1)

-----------------------------------------------------------------------------
(* Regular expressions of the program                                      *)

\* A match object: hit is FALSE for None, g is group(1).
NoMatch == [hit |-> FALSE, g |-> ""]
Match(g) == [hit |-> TRUE, g |-> g]

\* The last position in a..b of s that holds no line break (0: none).
RECURSIVE LastNonBreak(_, _, _)
LastNonBreak(s, a, b) ==
    IF b < a THEN 0
    ELSE IF Char(s, b) # "\n" THEN b
    ELSE LastNonBreak(s, a, b - 1)

\* The rest of a label's pattern, "\s*:\s*(.+)", matched in text from
\* position q0 (lt is the text in lower case). "\s*" runs over line breaks,
\* "(.+)" stops at one; when the white space after the colon runs to the end
\* of the text, "\s*" gives back its last character that is no line break
\* and the group is that character.
ColonValue(text, lt, q0) ==
    LET q1 == SkipSpace(lt, q0)
        q3 == SkipSpace(lt, q1 + 1)
        k  == LastNonBreak(lt, q1 + 1, Len(lt))
    IN  IF Char(lt, q1) # ":" THEN NoMatch
        ELSE IF q3 <= Len(lt) THEN Match(SubSeq(text, q3, LineEnd(text, q3)))
        ELSE IF k > 0 THEN Match(Char(text, k))
        ELSE NoMatch

\* re.search(rf"{lab}\s*:\s*(.+)", text, flags=re.IGNORECASE), tried at every
\* place of the label from position i on: the label may be the tail of a
\* longer word ("read_at" is found in "user_read_at").
RECURSIVE LabelSearchFrom(_, _, _, _)
LabelSearchFrom(text, lt, lab, i) ==
    LET p == Find(lt, lab, i)
    IN  IF p = 0 THEN NoMatch
        ELSE LET m == ColonValue(text, lt, p + Len(lab))
             IN  IF m.hit THEN m ELSE LabelSearchFrom(text, lt, lab, p + 1)

LabelSearch(text, lab) == LabelSearchFrom(text, Lower(text), lab, 1)

\* re.search(r"(?:author|author_name)\s*:\s*(.+)", text, flags=re.IGNORECASE):
\* at each place of "author", the first alternative and then the second.
RECURSIVE AuthorSearchFrom(_, _, _)
AuthorSearchFrom(text, lt, i) ==
    LET p == Find(lt, "author", i)
    IN  IF p = 0 THEN NoMatch
        ELSE LET m1 == ColonValue(text, lt, p + 6)
                 m2 == ColonValue(text, lt, p + 11)
             IN  IF m1.hit THEN m1
                 ELSE IF StartsAt(lt, p, "author_name") /\ m2.hit THEN m2
                 ELSE AuthorSearchFrom(text, lt, p + 1)

AuthorSearch(text) == AuthorSearchFrom(text, Lower(text), 1)

\* The first position >= i of s outside the class [\s_-].
RECURSIVE SkipJoiners(_, _)
SkipJoiners(s, i) ==
    IF i <= Len(s) /\ (IsSpace(Char(s, i)) \/ Char(s, i) \in {"_", "-"})
    THEN SkipJoiners(s, i + 1) ELSE i

\* "\b" after position i of s: the next character is no word character.
BoundaryAfter(s, i) == i >= Len(s) \/ ~IsWordChar(Char(s, i + 1))

\* "\b" before position i of s.
BoundaryBefore(s, i) == i <= 1 \/ ~IsWordChar(Char(s, i - 1))

IsRatingDigit(c) == c \in {"0", "1", "2", "3", "4", "5"}

DigitValue(c) == DigitValueOf[c]

\* A match of a rating pattern: n is int(group(1)).
NoRating == [hit |-> FALSE, n |-> 0]

\* re.search(r"user[\s_-]*rating\s*:\s*([0-5])\b", desc_text, re.IGNORECASE)
RECURSIVE UserRatingSearchFrom(_, _)
UserRatingSearchFrom(lt, i) ==
    LET p  == Find(lt, "user", i)
        q  == SkipJoiners(lt, p + 4)
        q1 == SkipSpace(lt, q + 6)
        q3 == SkipSpace(lt, q1 + 1)
    IN  IF p = 0 THEN NoRating
        ELSE IF /\ StartsAt(lt, q, "rating")
                /\ Char(lt, q1) = ":"
                /\ q3 <= Len(lt)
                /\ IsRatingDigit(Char(lt, q3))
                /\ BoundaryAfter(lt, q3)
             THEN [hit |-> TRUE, n |-> DigitValue(Char(lt, q3))]
        ELSE UserRatingSearchFrom(lt, p + 1)

UserRatingSearch(text) == UserRatingSearchFrom(Lower(text), 1)

\* re.search(r"\b([0-5])\b", s)
RECURSIVE LoneDigitSearch(_, _)
LoneDigitSearch(s, i) ==
    IF i > Len(s) THEN NoRating
    ELSE IF /\ IsRatingDigit(Char(s, i))
            /\ BoundaryBefore(s, i)
            /\ BoundaryAfter(s, i)
         THEN [hit |-> TRUE, n |-> DigitValue(Char(s, i))]
    ELSE LoneDigitSearch(s, i + 1)

\* re.search(r"(?:^|\n)review\s*:\s*(.*)", text, re.IGNORECASE | re.DOTALL):
\* "review" at the start of the text or of a line, the group running to the
\* end of the text.
RECURSIVE ReviewSearchFrom(_, _, _)
ReviewSearchFrom(text, lt, i) ==
    LET p  == Find(lt, "review", i)
        q1 == SkipSpace(lt, p + 6)
        q3 == SkipSpace(lt, q1 + 1)
    IN  IF p = 0 THEN NoMatch
        ELSE IF (p = 1 \/ Char(lt, p - 1) = "\n") /\ Char(lt, q1) = ":"
             THEN Match(SubSeq(text, q3, Len(text)))
        ELSE ReviewSearchFrom(text, lt, p + 1)


-----------------------------------------------------------------------------
(* Values of a feed entry's keys                                           *)

\* A Python value held under an entry key: a string or a number.
PyStrVal(s) == [t |-> "str", s |-> s, n |-> 0]
PyNumVal(n) == [t |-> "num", s |-> "", n |-> n]

\* The decimal digits of a natural number.
RECURSIVE NatStr(_)
NatStr(n) ==
    IF n < 10 THEN Char(Digits, n + 1)
    ELSE NatStr(n \div 10) \o Char(Digits, (n % 10) + 1)

\* str(v)
PyStr(v) ==
    IF v.t = "str" THEN v.s
    ELSE IF v.n < 0 THEN "-" \o NatStr(-v.n) ELSE NatStr(v.n)

\* bool(v): `if v:`
Truthy(v) == IF v.t = "str" THEN v.s # "" ELSE v.n # 0

\* entry.get(k), over the entry's keys other than title, link, description;
\* hit is FALSE for None.
RECURSIVE KeysGet(_, _, _)
KeysGet(keys, k, i) ==
    IF i > Len(keys) THEN [hit |-> FALSE, v |-> PyStrVal("")]
    ELSE IF keys[i][1] = k THEN [hit |-> TRUE, v |-> keys[i][2]]
    ELSE KeysGet(keys, k, i + 1)

EntryGet(e, k) == KeysGet(e.keys, k, 1)

-----------------------------------------------------------------------------
(* Dates                                                                   *)

SecondsPerDay == 24 * 60 * 60

\* The number a string of digits writes; -1 when a character is no digit.
RECURSIVE Num(_, _)
Num(s, acc) ==
    IF s = "" THEN acc
    ELSE IF ~IsDigit(Char(s, 1)) THEN -1
    ELSE Num(Tail(s), acc * 10 + DigitValueOf[Char(s, 1)])

IsLeap(y) == (y % 4 = 0 /\ y % 100 # 0) \/ y % 400 = 0

DaysInMonth(y, m) ==
    IF m = 2 THEN (IF IsLeap(y) THEN 29 ELSE 28)
    ELSE IF m \in {4, 6, 9, 11} THEN 30 ELSE 31

\* A datetime, or None (ok = FALSE).
NoDt == [ok |-> FALSE, y |-> 0, m |-> 0, d |-> 0]

\* _to_dt: dateutil's parse on the numeric forms YYYY-MM-DD and YYYY/MM/DD of
\* a calendar day, which it reads year first at midnight; every other string
\* of the model raises in the parser, and _to_dt answers None.
_to_dt(s) ==
    LET y == Num(SubSeq(s, 1, 4), 0)
        m == Num(SubSeq(s, 6, 7), 0)
        d == Num(SubSeq(s, 9, 10), 0)
    IN  IF /\ Len(s) = 10
           /\ Char(s, 5) \in {"-", "/"}
           /\ Char(s, 8) \in {"-", "/"}
           /\ y >= 1 /\ m \in 1..12
           /\ d >= 1 /\ d <= DaysInMonth(y, m)
        THEN [ok |-> TRUE, y |-> y, m |-> m, d |-> d]
        ELSE NoDt

\* Days from 1970-01-01 to the civil date y-m-d (negative before it).
DaysFromCivil(y, m, d) ==
    LET yy  == IF m <= 2 THEN y - 1 ELSE y
        era == yy \div 400
        yoe == yy - era * 400
        mp  == IF m > 2 THEN m - 3 ELSE m + 9
        doy == (153 * mp + 2) \div 5 + d - 1
        doe == yoe * 365 + yoe \div 4 - yoe \div 100 + doy
    IN  era * 146097 + doe - 719468

\* int(dt.timestamp()) of a naive datetime at midnight, the zone being UTC.
Timestamp(dt) == DaysFromCivil(dt.y, dt.m, dt.d) * SecondsPerDay

Pad(s, w) == IF Len(s) >= w THEN s ELSE SubSeq("0000", 1, w - Len(s)) \o s

\* dt.date().isoformat()
IsoFormat(dt) ==
    Pad(NatStr(dt.y), 4) \o "-" \o Pad(NatStr(dt.m), 2) \o "-" \o Pad(NatStr(dt.d), 2)

\* `return dt.date().isoformat(), int(dt.timestamp())`
Dated(dt) == [finished_at |-> IsoFormat(dt), finished_ts |-> Timestamp(dt)]

\* `return "", 0  # unknown`
Undated == [finished_at |-> "", finished_ts |-> 0]

PrimaryLabels == <<"read_at", "date_read", "user_read_at">>
PrimaryKeys ==
    <<"user_read_at", "read_at", "date_read", "gr_read_at", "gr_date_read",
      "user_date_read">>
FallbackLabels ==
    <<"user_date_updated", "date_updated", "user_date_added", "date_added",
      "pubdate", "published">>

\* The datetime a text label gives: the first match of the label, stripped,
\* when it is not empty and parses (lines 56-60, 73-76).
TextDate(text, lab) ==
    LET m   == LabelSearch(text, lab)
        raw == Strip(m.g)
    IN  IF m.hit /\ raw # "" THEN _to_dt(raw) ELSE NoDt

\* The datetime an entry key gives (lines 65-68, 79-82).
KeyDate(e, k) ==
    LET r == EntryGet(e, k)
    IN  IF r.hit /\ Truthy(r.v) THEN _to_dt(PyStr(r.v)) ELSE NoDt

\* The fallback entry keys alone, in order.
RECURSIVE PickFallbackKey(_, _)
PickFallbackKey(e, i) ==
    IF i > Len(FallbackLabels) THEN Undated
    ELSE LET kd == KeyDate(e, FallbackLabels[i])
         IN  IF kd.ok THEN Dated(kd) ELSE PickFallbackKey(e, i + 1)

\* The fallbacks with every text label tried before any entry key.
RECURSIVE PickFallbackTextFirst(_, _, _)
PickFallbackTextFirst(text, e, i) ==
    IF i > Len(FallbackLabels) THEN PickFallbackKey(e, 1)
    ELSE LET dt == TextDate(text, FallbackLabels[i])
         IN  IF dt.ok THEN Dated(dt) ELSE PickFallbackTextFirst(text, e, i + 1)

\* Lines 72-83: per fallback label, its text match and then its entry key.
RECURSIVE PickFallback(_, _, _)
PickFallback(text, e, i) ==
    IF i > Len(FallbackLabels) THEN Undated
    ELSE LET dt == TextDate(text, FallbackLabels[i])
             kd == KeyDate(e, FallbackLabels[i])
         IN  IF dt.ok THEN Dated(dt)
             ELSE IF kd.ok THEN Dated(kd)
             ELSE PickFallback(text, e, i + 1)

\* Lines 64-69: the entry keys of a true finish date, in order.
RECURSIVE PickPrimaryKey(_, _, _)
PickPrimaryKey(text, e, i) ==
    IF i > Len(PrimaryKeys) THEN PickFallback(text, e, 1)
    ELSE LET kd == KeyDate(e, PrimaryKeys[i])
         IN  IF kd.ok THEN Dated(kd) ELSE PickPrimaryKey(text, e, i + 1)

\* Lines 55-61: the text labels of a true finish date, in order.
RECURSIVE PickPrimaryLabel(_, _, _)
PickPrimaryLabel(text, e, i) ==
    IF i > Len(PrimaryLabels) THEN PickPrimaryKey(text, e, 1)
    ELSE LET dt == TextDate(text, PrimaryLabels[i])
         IN  IF dt.ok THEN Dated(dt) ELSE PickPrimaryLabel(text, e, i + 1)

_pick_finished_date(desc_text, e) == PickPrimaryLabel(desc_text, e, 1)

-----------------------------------------------------------------------------
(* Ratings                                                                 *)

\* The rating of a record: '' or an int.
Unrated == PyStrVal("")

\* Lines 38-45: the entry's keys in their order; a key naming the user's
\* rating gives its number when that is in 0..5 (int(v)), else the first lone
\* digit 0..5 of str(v); a key that gives neither is passed over.
RECURSIVE KeyRating(_, _)
KeyRating(keys, i) ==
    IF i > Len(keys) THEN Unrated
    ELSE LET lk == Lower(keys[i][1])
             v  == keys[i][2]
             m2 == LoneDigitSearch(PyStr(v), 1)
         IN  IF Contains(lk, "user") /\ Contains(lk, "rating")
             THEN IF v.t = "num" /\ 0 <= v.n /\ v.n <= 5 THEN PyNumVal(v.n)
                  ELSE IF m2.hit THEN PyNumVal(m2.n)
                  ELSE KeyRating(keys, i + 1)
             ELSE KeyRating(keys, i + 1)

_grab_user_rating(desc_text, e) ==
    LET m == UserRatingSearch(desc_text)
    IN  IF m.hit THEN PyNumVal(m.n) ELSE KeyRating(e.keys, 1)

\* The rating as grabbed, a 0 left in place.
CleanRatingKeepsZero(rating) == rating

\* Lines 117-119: `if rating == 0: rating = ""`
CleanRating(rating) ==
    IF rating.t = "num" /\ rating.n = 0 THEN Unrated ELSE rating

-----------------------------------------------------------------------------
(* Records                                                                 *)

\* BeautifulSoup(desc_html, "html.parser").get_text("\n", strip=True): the
\* description is its text nodes in document order; each is stripped, the
\* empty ones are dropped and the rest are joined by line breaks.
RECURSIVE GetText(_)
GetText(nodes) ==
    IF nodes = <<>> THEN ""
    ELSE LET h == Strip(Head(nodes))
             t == GetText(Tail(nodes))
         IN  IF h = "" THEN t
             ELSE IF t = "" THEN h
             ELSE h \o "\n" \o t

\* Lines 107-108
ExtractAuthor(text) ==
    LET m_auth == AuthorSearch(text)
    IN  IF m_auth.hit THEN Strip(m_auth.g) ELSE ""

\* The title split at its first " by " whether or not the description names
\* an author, the named author kept.
TitleAuthorAlwaysSplit(rawTitle, author) ==
    LET title == Strip(rawTitle)
        k     == Find(title, " by ", 1)
    IN  IF k > 0
        THEN [title  |-> Strip(SubSeq(title, 1, k - 1)),
              author |-> IF author = ""
                         THEN Strip(SubSeq(title, k + 4, Len(title)))
                         ELSE author]
        ELSE [title |-> title, author |-> author]

\* Lines 104, 109-112: the title and the author of the record. The title is
\* split at its first " by " only when the description names no author.
TitleAuthor(rawTitle, author) ==
    LET title == Strip(rawTitle)
        k     == Find(title, " by ", 1)
    IN  IF author = "" /\ k > 0
        THEN [title  |-> Strip(SubSeq(title, 1, k - 1)),
              author |-> Strip(SubSeq(title, k + 4, Len(title)))]
        ELSE [title |-> title, author |-> author]

_extract_review(text) ==
    LET m == ReviewSearchFrom(text, Lower(text), 1)
    IN  IF m.hit THEN Strip(m.g) ELSE ""

\* Lines 100-129: the record of one feed entry.
BuildRecord(e) ==
    LET text == GetText(e.description)
        ta   == TitleAuthor(e.title, ExtractAuthor(text))
        fin  == _pick_finished_date(text, e)
    IN  [title       |-> ta.title,
         author      |-> ta.author,
         finished_at |-> fin.finished_at,
         finished_ts |-> fin.finished_ts,
         rating      |-> CleanRating(_grab_user_rating(text, e)),
         review      |-> _extract_review(text),
         link        |-> e.link]

\* limit=200 of the call at line 161
Limit == 200

\* _parse_finished, given the entries feedparser read from the document:
\* the records of the first `limit` entries, in feed order.
_parse_finished(entries, limit) ==
    [i \in 1..Min(Len(entries), limit) |-> BuildRecord(entries[i])]

\* list.sort(key=lambda it: it.get("finished_ts", 0), reverse=True): a stable
\* sort, records of equal key keeping their order. Insert puts r behind every
\* record of the sorted list whose key is not smaller.
RECURSIVE Insert(_, _)
Insert(sorted, r) ==
    IF sorted = <<>> THEN <<r>>
    ELSE IF Head(sorted).finished_ts >= r.finished_ts
         THEN <<Head(sorted)>> \o Insert(Tail(sorted), r)
    ELSE <<r>> \o sorted

RECURSIVE SortNewestFirst(_)
SortNewestFirst(list) ==
    IF list = <<>> THEN <<>>
    ELSE Insert(SortNewestFirst(SubSeq(list, 1, Len(list) - 1)), list[Len(list)])

-----------------------------------------------------------------------------
(* Feed entries the parsing specification draws from                       *)

MaxLines == 2   \* text nodes in a description
MaxKeys  == 2   \* extra keys on an entry

\* The sequences of at most n elements of S.
RECURSIVE SeqsUpTo(_, _)
SeqsUpTo(S, n) ==
    IF n = 0 THEN {<<>>}
    ELSE LET shorter == SeqsUpTo(S, n - 1)
         IN  shorter \cup {Append(q, x) : q \in shorter, x \in S}

\* Sequences of key/value pairs whose keys differ, as in a dict.
DistinctKeys(kv) == \A i, j \in 1..Len(kv) : i # j => kv[i][1] # kv[j][1]

Entry(title, link, description, keys) ==
    [title |-> title, link |-> link, description |-> description, keys |-> keys]

\* Dates as the feed writes them, and a word the date parser rejects.
TextDateStrings == {"2024-03-05", "1969-12-31", "unknown"}
KeyDateStrings  == {"2025/04/16", "1970-01-01", "unknown", ""}

DateTextLabels == {"read_at", "user_read_at", "date_updated", "date_added", "published"}
DateKeyNames   == {"gr_read_at", "user_date_updated", "date_added"}

DateLines == {lab \o ": " \o d : lab \in DateTextLabels, d \in TextDateStrings}
DateKeyPairs == {<<k, PyStrVal(d)>> : k \in DateKeyNames, d \in KeyDateStrings}

\* Entries that vary the sources of the finished date: text alone, and one
\* text line at most beside the entry's keys.
DateEntries ==
    {Entry("Dune", "/book/1", d, <<>>) : d \in SeqsUpTo(DateLines, MaxLines)}
    \cup
    {Entry("Dune", "/book/1", d, kv) :
        d \in SeqsUpTo(DateLines, 1),
        kv \in {q \in SeqsUpTo(DateKeyPairs, MaxKeys) : DistinctKeys(q)}}

RatingLines ==
    {"user_rating: 0", "User Rating: 5", "rating: 4", "user_rating: 7",
     "user_rating: 10", "user-rating:", "3"}
RatingKeyPairs ==
    {<<k, v>> :
        k \in {"user_rating", "average_rating"},
        v \in {PyStrVal("4"), PyStrVal("0"), PyStrVal("7"), PyStrVal("10"),
               PyStrVal("-3"), PyStrVal("3.5"), PyNumVal(2), PyNumVal(0),
               PyNumVal(7)}}

\* Entries that vary the sources of the rating.
RatingEntries ==
    {Entry("Dune", "/book/1", d, <<>>) : d \in SeqsUpTo(RatingLines, MaxLines)}
    \cup
    {Entry("Dune", "/book/1", d, kv) :
        d \in SeqsUpTo(RatingLines, 1),
        kv \in {q \in SeqsUpTo(RatingKeyPairs, MaxKeys) : DistinctKeys(q)}}

Titles ==
    {"The Road by Cormac McCarthy", " Stand by Me by Stephen King ", "Dune",
     "Goodbye Things", "by the Sea", "Passing by ", "Day by Day by  A. Smith",
     " by ", "X by  ", ""}
AuthorNodes ==
    {<<>>, <<"author: C. McCarthy">>, <<"author_name:", " Frank Herbert ">>,
     <<"authority: none">>, <<"Author : A by B">>, <<"review: by the author">>}

\* Entries that vary the title and the author label.
TitleEntries ==
    {Entry(t, "/book/1", d, <<>>) : t \in Titles, d \in AuthorNodes}

EntryInputs == DateEntries \cup RatingEntries \cup TitleEntries

-----------------------------------------------------------------------------
(* The cache and the request handler                                       *)

NumThreads  == 2   \* request threads of the server
MaxRequests == 3   \* requests in a run
MaxTicks    == 2   \* clock steps in a run
TickStep    == 450 \* seconds in a clock step

Threads == 1..NumThreads

\* _CACHE["ttl"]
TTL == 15 * 60

\* time.time() counts seconds from 1970: the clock starts well past one ttl,
\* so that a capture time of 0 is always stale.
StartTime == 2 * TTL

\* _CACHE["items"]: None, or a list of records.
NoItems == [isNone |-> TRUE, list |-> <<>>]
Stored(list) == [isNone |-> FALSE, list |-> list]

\* bool(_CACHE["items"]): None and the empty list are false.
ItemsTruthy(x) == ~x.isNone /\ x.list # <<>>

\* Documents upstream may serve, as feedparser reads them: title and
\* description of each entry, in feed order.
EmptyFeed == <<>>
\* four books: the second without a date, the last finished the same day as
\* the first
ShelfFeed ==
    << <<"Dune by Frank Herbert", <<"read_at: 2024-03-05", "user_rating: 5">> >>,
       <<"Emma", <<"author: Jane Austen", "user_rating: 0">> >>,
       <<"Persuasion", <<"date_read:", "2025/04/16", "review: again">> >>,
       <<"Ubik", <<"user_read_at: 2024/03/05">> >> >>
\* a book read before 1970, behind one without a date
OldFeed ==
    << <<"Emma", <<"user_rating: 0">> >>,
       <<"Ulysses", <<"date_read: 1969-12-31">> >> >>

FeedDocuments == {EmptyFeed, ShelfFeed, OldFeed}

\* feed.entries: each entry's link is its own.
Feeds ==
    {[i \in 1..Len(f) |-> Entry(f[i][1], "/book/" \o NatStr(i), f[i][2], <<>>)] :
        f \in FeedDocuments}

\* Lines 161-164: the list a refresh builds from a document.
Refreshed(feed) == SortNewestFirst(_parse_finished(feed, Limit))

RefreshedOf == [feed \in Feeds |-> Refreshed(feed)]

RefreshedLists == {RefreshedOf[feed] : feed \in Feeds}

NoResponse == [status |-> 0, items |-> <<>>, error |-> ""]
\* jsonify({"items": items})
Ok(list) == [status |-> 200, items |-> list, error |-> ""]
\* jsonify({"error": ...}), 500, and the 500 of an exception that leaves the view
ServerError(what) == [status |-> 500, items |-> <<>>, error |-> what]

InitCache ==
    /\ cache_items = NoItems
    /\ cache_ts = 0
    /\ clock = StartTime
    /\ pc = [t \in Threads |-> "idle"]
    /\ nocache = [t \in Threads |-> FALSE]
    /\ now = [t \in Threads |-> 0]
    /\ items = [t \in Threads |-> NoItems]
    /\ resp = [t \in Threads |-> NoResponse]
    /\ reqno = [t \in Threads |-> 0]
    /\ fetched = [t \in Threads |-> "no"]
    /\ snap = [t \in Threads |-> [items |-> NoItems, ts |-> 0]]
    /\ seen = [t \in Threads |-> [items |-> -1, ts |-> -1]]
    /\ wrote = [items |-> 0, ts |-> 0]
    /\ nreq = 0
    /\ nfetch = 0

NotBuilt == [built |-> FALSE]

Init ==
    /\ configured \in BOOLEAN
    /\ InitCache
    /\ entry = Entry("", "", <<>>, <<>>)
    /\ rec = NotBuilt

cacheVars == <<configured, cache_items, cache_ts, clock, pc, nocache, now, items,
               resp, reqno, fetched, snap, seen, wrote, nreq, nfetch>>
parseVars == <<entry, rec>>

\* No other thread is inside finished().
Alone(t) == \A u \in Threads \ {t} : pc[u] \in {"idle", "done"}

\* The clock moves on.
Tick ==
    /\ clock < StartTime + MaxTicks * TickStep
    /\ clock' = clock + TickStep
    /\ UNCHANGED <<configured, cache_items, cache_ts, pc, nocache, now, items,
                   resp, reqno, fetched, snap, seen, wrote, nreq, nfetch, parseVars>>

\* Lines 150-157: a request arrives at thread t, nc being its nocache
\* argument. Without a feed URL it is answered at once; else nocache zeroes
\* the capture time, and the clock is read.
Start(t, nc) ==
    /\ pc[t] \in {"idle", "done"}
    /\ nreq < MaxRequests
    /\ nreq' = nreq + 1
    /\ reqno' = [reqno EXCEPT ![t] = nreq + 1]
    /\ nocache' = [nocache EXCEPT ![t] = nc]
    /\ snap' = [snap EXCEPT ![t] = [items |-> cache_items, ts |-> cache_ts]]
    /\ seen' = [seen EXCEPT ![t] = [items |-> -1, ts |-> -1]]
    /\ fetched' = [fetched EXCEPT ![t] = "no"]
    /\ items' = [items EXCEPT ![t] = NoItems]
    /\ now' = [now EXCEPT ![t] = clock]
    /\ IF ~configured
       THEN /\ resp' = [resp EXCEPT ![t] = ServerError("GOODREADS_READ_RSS not configured")]
            /\ pc' = [pc EXCEPT ![t] = "done"]
            /\ UNCHANGED cache_ts
       ELSE /\ resp' = [resp EXCEPT ![t] = NoResponse]
            /\ pc' = [pc EXCEPT ![t] = "l158_items"]
            /\ cache_ts' = IF nc THEN 0 ELSE cache_ts
    /\ UNCHANGED <<configured, cache_items, clock, wrote, nfetch, parseVars>>

\* Line 158, left operand: `_CACHE["items"]` is read and tested.
CheckItems(t) ==
    /\ pc[t] = "l158_items"
    /\ seen' = [seen EXCEPT ![t].items = wrote.items]
    /\ pc' = [pc EXCEPT ![t] = IF ItemsTruthy(cache_items) THEN "l158_ts" ELSE "l161"]
    /\ UNCHANGED <<configured, cache_items, cache_ts, clock, nocache, now, items,
                   resp, reqno, fetched, snap, wrote, nreq, nfetch, parseVars>>

\* Line 158, right operand: `now - _CACHE["ts"] < _CACHE["ttl"]`.
CheckTs(t) ==
    /\ pc[t] = "l158_ts"
    /\ seen' = [seen EXCEPT ![t].ts = wrote.ts]
    /\ pc' = [pc EXCEPT ![t] = IF now[t] - cache_ts < TTL THEN "l159" ELSE "l161"]
    /\ UNCHANGED <<configured, cache_items, cache_ts, clock, nocache, now, items,
                   resp, reqno, fetched, snap, wrote, nreq, nfetch, parseVars>>

\* Lines 159, 170: a cache hit; the stored list is read again and returned
\* (the local `items` that holds it in between dies with the return).
Hit(t) ==
    /\ pc[t] = "l159"
    /\ resp' = [resp EXCEPT ![t] = Ok(cache_items.list)]
    /\ pc' = [pc EXCEPT ![t] = "done"]
    /\ UNCHANGED <<configured, cache_items, cache_ts, clock, nocache, now, items,
                   reqno, fetched, snap, seen, wrote, nreq, nfetch, parseVars>>

\* Lines 161, 97, 25, 20: the request goes upstream.
FetchStart(t) ==
    /\ pc[t] = "l161"
    /\ nfetch' = nfetch + 1
    /\ fetched' = [fetched EXCEPT ![t] = "sent"]
    /\ pc' = [pc EXCEPT ![t] = "fetching"]
    /\ UNCHANGED <<configured, cache_items, cache_ts, clock, nocache, now, items,
                   resp, reqno, snap, seen, wrote, nreq, parseVars>>

\* A failed fetch that also drops the cached list.
FetchFailDropsCache(t) ==
    /\ pc[t] = "fetching"
    /\ fetched' = [fetched EXCEPT ![t] = "failed"]
    /\ resp' = [resp EXCEPT ![t] = ServerError("fetch")]
    /\ pc' = [pc EXCEPT ![t] = "done"]
    /\ cache_items' = NoItems
    /\ UNCHANGED <<configured, cache_ts, clock, nocache, now, items,
                   reqno, snap, seen, wrote, nreq, nfetch, parseVars>>

\* Lines 20-21 raise (a network error, a timeout, a status that is no
\* success): the exception leaves finished() and the caller gets a 500.
FetchFail(t) ==
    /\ pc[t] = "fetching"
    /\ fetched' = [fetched EXCEPT ![t] = "failed"]
    /\ resp' = [resp EXCEPT ![t] = ServerError("fetch")]
    /\ pc' = [pc EXCEPT ![t] = "done"]
    /\ UNCHANGED <<configured, cache_items, cache_ts, clock, nocache, now, items,
                   reqno, snap, seen, wrote, nreq, nfetch, parseVars>>

\* Lines 22, 26, 98-130, 164: the document arrives; it is parsed and the
\* records are sorted, in the thread's own list.
FetchOk(t, feed) ==
    /\ pc[t] = "fetching"
    /\ fetched' = [fetched EXCEPT ![t] = "ok"]
    /\ items' = [items EXCEPT ![t] = Stored(RefreshedOf[feed])]
    /\ pc' = [pc EXCEPT ![t] = "l165"]
    /\ UNCHANGED <<configured, cache_items, cache_ts, clock, nocache, now,
                   resp, reqno, snap, seen, wrote, nreq, nfetch, parseVars>>

\* Line 165: `_CACHE["items"] = items`
StoreItems(t) ==
    /\ pc[t] = "l165"
    /\ cache_items' = items[t]
    /\ wrote' = [wrote EXCEPT !.items = reqno[t]]
    /\ pc' = [pc EXCEPT ![t] = "l166"]
    /\ UNCHANGED <<configured, cache_ts, clock, nocache, now, items, resp,
                   reqno, fetched, snap, seen, nreq, nfetch, parseVars>>

\* Lines 166, 170: `_CACHE["ts"] = now`, and the new list is returned.
StoreTs(t) ==
    /\ pc[t] = "l166"
    /\ cache_ts' = now[t]
    /\ wrote' = [wrote EXCEPT !.ts = reqno[t]]
    /\ resp' = [resp EXCEPT ![t] = Ok(items[t].list)]
    /\ items' = [items EXCEPT ![t] = NoItems]
    /\ pc' = [pc EXCEPT ![t] = "done"]
    /\ UNCHANGED <<configured, cache_items, clock, nocache, now,
                   reqno, fetched, snap, seen, nreq, nfetch, parseVars>>

\* The server's threads run finished() side by side.
Next ==
    \/ Tick
    \/ \E t \in Threads, nc \in BOOLEAN : Start(t, nc)
    \/ \E t \in Threads : CheckItems(t)
    \/ \E t \in Threads : CheckTs(t)
    \/ \E t \in Threads : Hit(t)
    \/ \E t \in Threads : FetchStart(t)
    \/ \E t \in Threads : FetchFail(t)
    \/ \E t \in Threads, feed \in Feeds : FetchOk(t, feed)
    \/ \E t \in Threads : StoreItems(t)
    \/ \E t \in Threads : StoreTs(t)

Spec == Init /\ [][Next]_vars

\* The server answers one request at a time: a request starts when no other
\* is under way. Two threads take the requests, so that the last two are in
\* view.
SeqThreads == 1..2

SeqNext ==
    \/ Tick
    \/ \E t \in SeqThreads, nc \in BOOLEAN : Alone(t) /\ Start(t, nc)
    \/ \E t \in Threads : CheckItems(t)
    \/ \E t \in Threads : CheckTs(t)
    \/ \E t \in Threads : Hit(t)
    \/ \E t \in Threads : FetchStart(t)
    \/ \E t \in Threads : FetchFail(t)
    \/ \E t \in Threads, feed \in Feeds : FetchOk(t, feed)
    \/ \E t \in Threads : StoreItems(t)
    \/ \E t \in Threads : StoreTs(t)

SeqSpec == Init /\ [][SeqNext]_vars

-----------------------------------------------------------------------------
(* The parsing specification: one entry through the record builder         *)

ParseInit ==
    /\ configured = TRUE
    /\ InitCache
    /\ entry \in EntryInputs
    /\ rec = NotBuilt

\* The body of the loop of _parse_finished on the entry.
Build ==
    /\ rec = NotBuilt
    /\ rec' = [built |-> TRUE, r |-> BuildRecord(entry)]
    /\ UNCHANGED <<entry, cacheVars>>

ParseNext == Build

ParseSpec == ParseInit /\ [][ParseNext]_vars

-----------------------------------------------------------------------------
(* Properties of the cache                                                 *)

\* Thread t has answered the request it holds.
Answered(t) == pc[t] = "done" /\ reqno[t] > 0

\* No request arrived after the one thread t holds.
Latest(t) == reqno[t] = nreq

\* Thread u's request came right after thread t's, and both are answered.
Consecutive(t, u) == Answered(t) /\ Answered(u) /\ reqno[u] = reqno[t] + 1

\* The cache held a non-empty list, captured less than a ttl before thread
\* t's request, when the request arrived.
ArrivedFresh(t) == ItemsTruthy(snap[t].items) /\ now[t] - snap[t].ts < TTL

(* C1: a request whose upstream fetch fails, with or without nocache, leaves
   the cached record list as it was when the request arrived; its caller is
   answered with a server error and no items; the records the cache held stay
   in it. Requests are answered one at a time. *)
C1_FailedFetchKeepsRecords ==
    \A t \in Threads :
        (Answered(t) /\ Latest(t) /\ fetched[t] = "failed")
            => /\ cache_items = snap[t].items
               /\ resp[t].status = 500
               /\ resp[t].items = <<>>

\* A populated cache, a nocache request, and its fetch has failed.
C1_Witness ==
    \E t \in Threads :
        /\ Answered(t) /\ Latest(t) /\ fetched[t] = "failed"
        /\ nocache[t]
        /\ ItemsTruthy(snap[t].items)
        /\ ItemsTruthy(cache_items)

(* C2: of two consecutive requests without nocache, neither failing, the
   second arriving within a ttl of the capture time the first left, at most
   one goes upstream, and the second is answered with the list the cache
   held when it arrived; whatever the cache held before and whatever the feed
   holds, an empty feed included. *)
C2_OneFetchPerWindow ==
    \A t, u \in Threads :
        (/\ Consecutive(t, u)
         /\ configured
         /\ ~nocache[t] /\ ~nocache[u]
         /\ fetched[t] # "failed" /\ fetched[u] # "failed"
         /\ now[u] - snap[u].ts < TTL)
            => /\ ~(fetched[t] = "ok" /\ fetched[u] = "ok")
               /\ resp[u] = Ok(snap[u].items.list)

\* A position of the feed, read back from a record's link.
FeedPosition(r) == Num(SubSeq(r.link, 7, Len(r.link)), 0)

SortedNewestFirst(L) ==
    \A i, j \in 1..Len(L) : i < j => L[i].finished_ts >= L[j].finished_ts

\* Every record without a date (finished_ts = 0) is behind every dated one.
UnknownLast(L) ==
    \A i, j \in 1..Len(L) :
        (L[i].finished_ts = 0 /\ L[j].finished_at # "") => j < i

\* Records of equal finished_ts are in feed order.
TiesInFeedOrder(L) ==
    \A i, j \in 1..Len(L) :
        (i < j /\ L[i].finished_ts = L[j].finished_ts)
            => FeedPosition(L[i]) < FeedPosition(L[j])

\* The lists the cache holds and the responses carry.
ServedLists == {cache_items.list} \cup {resp[t].items : t \in Threads}

(* C3: after every refresh the stored and the returned record list is in
   descending order of finished_ts, every record of unknown date is behind
   every record of known date, and records of equal finished_ts keep their
   feed order. *)
C3_NewestFirstUnknownLast ==
    \A L \in ServedLists :
        SortedNewestFirst(L) /\ UnknownLast(L) /\ TiesInFeedOrder(L)

(* C8: a refresh replaces records and capture time as one: a request that
   has read, at line 158, items and a capture time that refreshes stored has
   read those of the same refresh; and every list served is a whole, sorted
   list of one refresh. *)
C8_AtomicRefresh ==
    /\ \A t \in Threads :
        (seen[t].items >= 1 /\ seen[t].ts >= 1) => seen[t].items = seen[t].ts
    /\ \A t \in Threads :
        resp[t].status = 200 => resp[t].items \in RefreshedLists

(* C9: at most one upstream fetch is in flight at any time. *)
C9_SingleFlight ==
    Cardinality({t \in Threads : pc[t] = "fetching"}) <= 1

(* C10: when a request finds the cache populated and within its ttl and its
   fetch fails, the next request, without nocache and within the ttl of that
   same capture, is answered from the cache with the records it held, and
   does not go upstream. *)
C10_FailureKeepsCaptureTime ==
    \A t, u \in Threads :
        (/\ Consecutive(t, u)
         /\ fetched[t] = "failed"
         /\ ArrivedFresh(t)
         /\ ~nocache[u]
         /\ now[u] - snap[t].ts < TTL)
            => /\ fetched[u] = "no"
               /\ resp[u] = Ok(snap[t].items.list)

-----------------------------------------------------------------------------
(* Properties of the record builder                                        *)

\* The text the record of `entry` is built from.
EntryText == GetText(entry.description)

\* The first datetime of a sequence that is one, as the date of a record.
FirstDated(q) ==
    LET hits == {i \in 1..Len(q) : q[i].ok}
    IN  IF hits = {} THEN Undated
        ELSE Dated(q[CHOOSE i \in hits : \A j \in hits : i <= j])

TextDates(text, labels) == [i \in 1..Len(labels) |-> TextDate(text, labels[i])]
KeyDates(e, keys) == [i \in 1..Len(keys) |-> KeyDate(e, keys[i])]

\* Each fallback signal's text label, then its entry key, signal by signal.
FallbackBySignal(text, e) ==
    [i \in 1..(2 * Len(FallbackLabels)) |->
        IF i % 2 = 1 THEN TextDate(text, FallbackLabels[(i + 1) \div 2])
        ELSE KeyDate(e, FallbackLabels[i \div 2])]

RecordDate == [finished_at |-> rec.r.finished_at, finished_ts |-> rec.r.finished_ts]

(* C4, as claimed: the finished date is the first that yields of (1) the
   primary text labels, (2) the primary entry keys, (3) the fallback text
   labels, (4) the fallback entry keys, else (5) empty and 0; so that no
   fallback entry key decides while a fallback text label yields a date. *)
C4_StrictChain ==
    rec.built =>
        RecordDate = FirstDated(TextDates(EntryText, PrimaryLabels)
                                \o KeyDates(entry, PrimaryKeys)
                                \o TextDates(EntryText, FallbackLabels)
                                \o KeyDates(entry, FallbackLabels))

(* C4, amended: steps (1) and (2) as claimed; the fallback signals are then
   tried one by one in the order user_date_updated, date_updated,
   user_date_added, date_added, pubdate, published, each by its text label
   and then by its entry key, before the next signal; else empty and 0. *)
C4_ChainBySignal ==
    rec.built =>
        RecordDate = FirstDated(TextDates(EntryText, PrimaryLabels)
                                \o KeyDates(entry, PrimaryKeys)
                                \o FallbackBySignal(EntryText, entry))

\* No true finish date; a fallback text label yields a date, and the record
\* has the other date of an earlier signal's entry key.
C4_Witness ==
    /\ rec.built
    /\ FirstDated(TextDates(EntryText, PrimaryLabels)
                  \o KeyDates(entry, PrimaryKeys)) = Undated
    /\ \E i, j \in 1..Len(FallbackLabels) :
        /\ i < j
        /\ KeyDate(entry, FallbackLabels[i]).ok
        /\ TextDate(EntryText, FallbackLabels[j]).ok
        /\ KeyDate(entry, FallbackLabels[i]) # TextDate(EntryText, FallbackLabels[j])
        /\ RecordDate = Dated(KeyDate(entry, FallbackLabels[i]))

\* The title of `entry`, trimmed, and the place of its first " by " (0: none).
TrimmedTitle == Strip(entry.title)
FirstBy ==
    LET places == {k \in 1..Len(TrimmedTitle) : StartsAt(TrimmedTitle, k, " by ")}
    IN  IF places = {} THEN 0 ELSE CHOOSE k \in places : \A j \in places : k <= j

(* C5, as claimed: with no author label and " by " in the title, the title
   is split at the first " by "; with an author label, the record has the
   label's author and the " by ..." is stripped from the title all the same. *)
C5_TrailingByStripped ==
    rec.built =>
        /\ (ExtractAuthor(EntryText) = "" /\ FirstBy > 0)
            => /\ rec.r.title = Strip(SubSeq(TrimmedTitle, 1, FirstBy - 1))
               /\ rec.r.author = Strip(SubSeq(TrimmedTitle, FirstBy + 4, Len(TrimmedTitle)))
        /\ (ExtractAuthor(EntryText) # "" /\ FirstBy > 0)
            => /\ rec.r.author = ExtractAuthor(EntryText)
               /\ rec.r.title # TrimmedTitle

(* C5, amended: with no author label and " by " in the title, the title is
   split at the first " by " (before: title, after: author; "The Road by
   Cormac McCarthy" gives "The Road" and "Cormac McCarthy"); with an author
   label, the record has the label's author and the whole trimmed title,
   its " by ..." kept. *)
C5_TitleKeptWithAuthorLabel ==
    rec.built =>
        /\ (ExtractAuthor(EntryText) = "" /\ FirstBy > 0)
            => /\ rec.r.title = Strip(SubSeq(TrimmedTitle, 1, FirstBy - 1))
               /\ rec.r.author = Strip(SubSeq(TrimmedTitle, FirstBy + 4, Len(TrimmedTitle)))
        /\ (ExtractAuthor(EntryText) = "" /\ entry.title = "The Road by Cormac McCarthy")
            => rec.r.title = "The Road" /\ rec.r.author = "Cormac McCarthy"
        /\ ExtractAuthor(EntryText) # ""
            => /\ rec.r.author = ExtractAuthor(EntryText)
               /\ rec.r.title = TrimmedTitle

\* An author label, and a title that keeps its " by ...".
C5_Witness ==
    /\ rec.built
    /\ ExtractAuthor(EntryText) # ""
    /\ rec.r.author = ExtractAuthor(EntryText)
    /\ Contains(rec.r.title, " by ")

\* The entry's keys that name the user's rating, as line 40 tells them.
UserRatingKeys ==
    {i \in 1..Len(entry.keys) :
        Contains(Lower(entry.keys[i][1]), "user")
        /\ Contains(Lower(entry.keys[i][1]), "rating")}

\* v writes a whole number without a sign; with an optional minus sign.
IsUnsigned(v) == IF v.t = "num" THEN v.n >= 0 ELSE v.s # "" /\ Num(v.s, 0) >= 0
IsWhole(v) ==
    \/ IsUnsigned(v)
    \/ v.t = "num"
    \/ Len(v.s) > 1 /\ SubSeq(v.s, 1, 1) = "-" /\ Num(Tail(v.s), 0) >= 0
WholeValue(v) ==
    IF v.t = "num" THEN v.n
    ELSE IF IsUnsigned(v) THEN Num(v.s, 0) ELSE 0 - Num(Tail(v.s), 0)

RatingInRange ==
    \/ rec.r.rating = Unrated
    \/ rec.r.rating.t = "num" /\ rec.r.rating.n \in 1..5

(* C6, as claimed: the rating of a record is empty or an integer in 1..5; a
   detected 0 becomes empty; and a value outside 1..5 counts as no rating:
   when the text gives none and every rating key holds a whole number
   outside 1..5, the rating is empty. *)
C6_OutOfRangeAbsent ==
    rec.built =>
        /\ RatingInRange
        /\ (UserRatingSearch(EntryText).hit /\ UserRatingSearch(EntryText).n = 0)
            => rec.r.rating = Unrated
        /\ (/\ ~UserRatingSearch(EntryText).hit
            /\ \A i \in UserRatingKeys :
                /\ IsWhole(entry.keys[i][2])
                /\ WholeValue(entry.keys[i][2]) \notin 1..5)
            => rec.r.rating = Unrated

(* C6, amended: the rating of a record is empty or an integer in 1..5; a
   detected 0 becomes empty; and an unsigned whole number outside 1..5 (0, 6
   to 9, 10 and more) counts as no rating and is never clamped: when the
   text gives none and every rating key holds such a number, the rating is
   empty. (A key's value is otherwise searched for a digit 0..5 that stands
   alone, so that -3 and 3.5 give 3.) *)
C6_RatingEmptyOrOneToFive ==
    rec.built =>
        /\ RatingInRange
        /\ (UserRatingSearch(EntryText).hit /\ UserRatingSearch(EntryText).n = 0)
            => rec.r.rating = Unrated
        /\ (/\ ~UserRatingSearch(EntryText).hit
            /\ \A i \in UserRatingKeys :
                /\ IsUnsigned(entry.keys[i][2])
                /\ WholeValue(entry.keys[i][2]) \notin 1..5)
            => rec.r.rating = Unrated

\* The text says user_rating: 0, a key holds 7, and the record has no rating.
C6_Witness ==
    /\ rec.built
    /\ UserRatingSearch(EntryText).hit /\ UserRatingSearch(EntryText).n = 0
    /\ \E i \in UserRatingKeys : entry.keys[i][2] = PyNumVal(7)
    /\ rec.r.rating = Unrated

(* C7: finished_ts of a record is not negative, and is 0 exactly when
   finished_at is empty. *)
C7_TimestampZeroIffUndated ==
    rec.built =>
        /\ rec.r.finished_ts >= 0
        /\ rec.r.finished_ts = 0 <=> rec.r.finished_at = ""

=============================================================================
